---- MODULE Spec2Model ----
(***************************************************************************)
(* The Gemini chat-completion adapter of AstrBot                           *)
(* (astrbot/core/provider/sources/gemini_source.py): the credential        *)
(* rotation loop of ProviderGoogleGenAI.text_chat, the capability          *)
(* negotiation loop of ProviderGoogleGenAI._query, the request built by    *)
(* SimpleGoogleGenAIClient.generate_content and the two-event stream of    *)
(* ProviderGoogleGenAI.text_chat_stream.                                   *)
(*                                                                         *)
(* The provider runs on one asyncio event loop: a coroutine runs without   *)
(* interruption between two suspension points.  The suspension points of   *)
(* a chat call are the HTTP post (generate_content, line 65), the pause    *)
(* asyncio.sleep(1) (line 359) and the two yields of text_chat_stream.     *)
(* Every action below is the code between two suspension points.           *)
(***************************************************************************)
EXTENDS Integers, Sequences, FiniteSets, TLC

\* text_chat: retry = 10
retry == 10

\* Largest credential pool of the small-pool specifications.
MaxPool == 2

\* How many keys the large pool has beyond the retry budget.
ExtraKeys == 1

\* Cap on the degrade rounds of one _query that the model follows (the code
\* has none).
MaxDegrades == 4

\* Longest history the translation is run on.
MaxTurns == 2

\* Most parts in a vendor answer.
MaxParts == 2

\* The coroutines that may run text_chat on the one provider.
Calls == {1, 2}

\* self.chosen_api_key = None: the absent credential.
NoKey == 0

\* The three request features capability negotiation may strip.
Features == {"system_instruction", "tools", "Image"}

\* The prompts a call may carry (the conversation contents are opaque here).
Prompts == {"2+2?"}

VARIABLES
    api_keys,            \* self.api_keys: the configured pool
    client_api_key,      \* self.client.api_key: the shared active credential
    gm_resp_image_modal, \* provider_config["gm_resp_image_modal"]
    vendor,              \* the vendor's treatment of each credential
    workload,            \* the arguments the callers call with
    pc,                  \* where each call is suspended
    args,                \* the arguments of each call
    keys,                \* text_chat: keys, the working copy
    chosen_key,          \* text_chat: chosen_key
    i,                   \* text_chat: the loop index i
    llm_response,        \* text_chat: llm_response
    raised,              \* the exception a call ended with
    system_instruction,  \* _query: system_instruction
    tool,                \* _query: tool
    modalites,           \* _query: modalites
    resp,                \* generate_content: resp, what the last post ended with
    degrades,            \* _query: rounds of the while loop after the first
    request,             \* the HTTP request in flight
    stripped,            \* features stripped so far in the call
    is_chunk,            \* llm_response.is_chunk of each call's response object
    events,              \* text_chat_stream: the events delivered
    key_set,             \* the credential set_key has set since the last call began
    unsupported,         \* the request features the vendor's model declines
    messages,            \* _query: payloads["messages"]
    conversation,        \* _query: system_instruction and google_genai_conversation
    parts,               \* _query: result["candidates"][0]["content"]["parts"]
    decoded,             \* _query: the llm_response built from the parts
    stage,               \* how far the translation of a history has come
    http_request,        \* auth_middleware: request (path and Authorization header)
    http_response,       \* auth_middleware: what it returned or raised
    g_username           \* auth_middleware: g.username

vars == <<api_keys, client_api_key, gm_resp_image_modal, vendor, workload, pc, args,
          keys, chosen_key, i, llm_response, raised, system_instruction,
          tool, modalites, resp, degrades, request, stripped, is_chunk,
          events, key_set, unsupported, messages, conversation, parts, decoded, stage,
          http_request, http_response, g_username>>

config == <<gm_resp_image_modal, vendor, workload, unsupported>>

\* The state of the message translation of _query, taken by itself.
translation == <<messages, conversation, parts, decoded, stage>>

\* The state of the dashboard's request authentication.
dashboard == <<http_request, http_response, g_username>>

----------------------------------------------------------------------------
\* Sequences as Python lists.

Range(s) == {s[j] : j \in 1..Len(s)}

\* Mutant of Remove: the failed credential stays in the list.
RemoveNothing(s, x) == s

\* list.remove(x): drops the first occurrence of x.
Remove(s, x) ==
    LET idx == CHOOSE j \in 1..Len(s) :
                   s[j] = x /\ \A m \in 1..(j - 1) : s[m] # x
    IN  SubSeq(s, 1, idx - 1) \o SubSeq(s, idx + 1, Len(s))

\* random.choice(seq): any element of a non-empty list.
random_choice(s) == Range(s)

\* A pool of n distinct credentials.
Pool(n) == [j \in 1..n |-> j]

----------------------------------------------------------------------------
\* Exceptions.  t429 and tkey say whether str(e) contains "429" and
\* "API key not valid".

\* Mutant of IndexError: the empty pool goes unnoticed and no error is
\* raised.
NoError == [type |-> "none", t429 |-> FALSE, tkey |-> FALSE]

\* random.choice of an empty list (line 344).
IndexError == [type |-> "IndexError", t429 |-> FALSE, tkey |-> FALSE]

\* llm_response.is_chunk = True on None (line 396).
AttributeError == [type |-> "AttributeError", t429 |-> FALSE, tkey |-> FALSE]

\* raise Exception("达到了 Gemini 速率限制, 请稍后再试...") (line 365).
RateLimitExhausted == [type |-> "RateLimitExhausted", t429 |-> FALSE, tkey |-> FALSE]

\* raise Exception("Gemini 返回了非 json 数据： ") (line 79).
NonJsonError == [type |-> "NonJson", t429 |-> FALSE, tkey |-> FALSE]

\* result["candidates"][0]["content"]["parts"] on a body without them (line 290).
DecodeError == [type |-> "Decode", t429 |-> FALSE, tkey |-> FALSE]

\* raise Exception("Gemini 返回异常结果: " + str(result)) (line 288).
AbnormalResult(r) == [type |-> "AbnormalResult", t429 |-> r.t429, tkey |-> r.tkey]

\* An exception of the HTTP layer (connection, timeout, resp.json()).
TransportError(r) == [type |-> "Transport", t429 |-> r.t429, tkey |-> r.tkey]

NoException == [type |-> "none", t429 |-> FALSE, tkey |-> FALSE]

----------------------------------------------------------------------------
\* Vendor responses.  kind: "json" (a parsed body), "nonjson" (another
\* content type) or "exception" (the HTTP layer raised).  For a body: cand
\* says it has the key "candidates", decodable that candidates[0].content.parts
\* exists, phrases which rejection phrases str(result) contains, t429 and tkey
\* whether it contains "429" and "API key not valid".

Response(kind, cand, decodable, phrases, t429, tkey) ==
    [kind |-> kind, cand |-> cand, decodable |-> decodable,
     phrases |-> phrases, t429 |-> t429, tkey |-> tkey]

NoResult == Response("none", FALSE, FALSE, {}, FALSE, FALSE)

CredentialTexts == {<<FALSE, FALSE>>, <<TRUE, FALSE>>, <<FALSE, TRUE>>}

\* The bodies the vendor may send.  With a rejection phrase in it nothing
\* else of a body is read but the phrases; without one, only whether it has
\* candidates and, if not, its text.
JsonBodies ==
    {Response("json", cand, cand, ph, FALSE, FALSE) :
        cand \in BOOLEAN, ph \in (SUBSET Features) \ {{}}}
    \cup {Response("json", TRUE, d, {}, FALSE, FALSE) : d \in BOOLEAN}
    \cup {Response("json", FALSE, FALSE, {}, t[1], t[2]) : t \in CredentialTexts}

AllResponses ==
    JsonBodies
    \cup {Response("nonjson", FALSE, FALSE, {}, FALSE, FALSE)}
    \cup {Response("exception", FALSE, FALSE, {}, t[1], t[2]) : t \in CredentialTexts}

\* HTTP 429: {"error": {"code": 429, ...}}
RateLimited == Response("json", FALSE, FALSE, {}, TRUE, FALSE)

\* HTTP 400: {"error": {"message": "API key not valid. ..."}}
KeyNotValid == Response("json", FALSE, FALSE, {}, FALSE, TRUE)

\* A well-formed answer.
Candidates == Response("json", TRUE, TRUE, {}, FALSE, FALSE)

\* An error body declining one feature.
Rejection(f) == Response("json", FALSE, FALSE, {f}, FALSE, FALSE)

\* generate_content (lines 48-67): the request as posted.  The credential is
\* read from the shared client when the URL is built.

NoRequest ==
    [key |-> NoKey, system_instruction |-> FALSE, tools |-> FALSE,
     modalities |-> {}, contents |-> ""]

generate_content(self_api_key, contents, sys, tl, mods) ==
    [key |-> self_api_key, system_instruction |-> sys, tools |-> tl,
     modalities |-> mods, contents |-> contents]

RequestFeatures(rq) ==
    {f \in Features :
        \/ f = "system_instruction" /\ rq.system_instruction
        \/ f = "tools" /\ rq.tools
        \/ f = "Image" /\ "Image" \in rq.modalities}

\* What the vendor may answer to request rq, by the class of its credential:
\* "limited" answers 429, "revoked" that the key is not valid, "valid"
\* answers with candidates or declines one feature the request carries,
\* "model" declines, as long as the request carries any, features of the
\* fixed set its model does not support (one or several in one body) and
\* answers with candidates otherwise, and "any" answers anything.
VendorResponses(rq) ==
    CASE rq.key = NoKey -> {KeyNotValid}
      [] vendor[rq.key] = "limited" -> {RateLimited}
      [] vendor[rq.key] = "revoked" -> {KeyNotValid}
      [] vendor[rq.key] = "valid" ->
            {Candidates} \cup {Rejection(f) : f \in RequestFeatures(rq)}
      [] vendor[rq.key] = "model" ->
            IF RequestFeatures(rq) \cap unsupported = {}
            THEN {Candidates}
            ELSE {Response("json", FALSE, FALSE, ph, FALSE, FALSE) :
                    ph \in (SUBSET (RequestFeatures(rq) \cap unsupported)) \ {{}}}
      [] OTHER -> AllResponses

----------------------------------------------------------------------------
\* The arguments of a call: whether a system prompt and a tool set are
\* given, the prompt, and whether the call is made through text_chat_stream.
Args ==
    [system_prompt : BOOLEAN, func_tool : BOOLEAN, prompt : Prompts,
     stream : BOOLEAN]

NoArgs ==
    [system_prompt |-> FALSE, func_tool |-> FALSE, prompt |-> "",
     stream |-> FALSE]

\* _query, lines 178-246: the vendor conversation built from the messages
\* (opaque here: the prompt stands for it).
google_genai_conversation(a) == a.prompt

\* _query, lines 248-250.
InitialModalites == IF gm_resp_image_modal THEN {"Text", "Image"} ELSE {"Text"}

\* Mutant of PoolAfterRemove: keys = self.api_keys without the copy, so that
\* keys.remove acts on the pool itself.
PoolAliased(pool, k) == Remove(pool, k)

\* keys = self.api_keys.copy() (line 343): keys.remove (line 353) acts on the
\* copy and self.api_keys stays as it is.
PoolAfterRemove(pool, k) == pool

\* Mutant of SetClientKey: the assignment is missing and the shared client
\* keeps the credential it had.
KeepClientKey(old, k) == old

\* text_chat, line 348: self.client.api_key = chosen_key.
SetClientKey(old, k) == k

\* get_current_key (lines 401-402): return self.client.api_key.
get_current_key == client_api_key

\* get_keys (lines 404-405): return self.api_keys.
get_keys == api_keys

\* Mutant of LoopContinues: the loop goes on as long as credentials are left.
LoopUnbounded(j) == TRUE

\* text_chat, line 346: for i in range(retry) has a round after round j.
LoopContinues(j) == j + 1 < retry

Idle == {"idle", "returned", "raised"}

InFlight(c) == pc[c] \notin Idle

\* _query from its first line to the first post (lines 166-262), run with the
\* shared credential as text_chat has just set it.
query(c, a) ==
    /\ system_instruction' = [system_instruction EXCEPT ![c] = a.system_prompt]
    /\ tool' = [tool EXCEPT ![c] = a.func_tool]
    /\ modalites' = [modalites EXCEPT ![c] = InitialModalites]
    /\ resp' = [resp EXCEPT ![c] = NoResult]
    /\ degrades' = [degrades EXCEPT ![c] = 0]
    /\ request' = [request EXCEPT ![c] =
                      generate_content(client_api_key',
                                       google_genai_conversation(a),
                                       a.system_prompt, a.func_tool,
                                       InitialModalites)]
    /\ pc' = [pc EXCEPT ![c] = "awaiting"]

\* _query is left, by return or by an exception: its frame, and that of
\* generate_content, are gone.
ExitQuery(c) ==
    /\ system_instruction' = [system_instruction EXCEPT ![c] = FALSE]
    /\ tool' = [tool EXCEPT ![c] = FALSE]
    /\ modalites' = [modalites EXCEPT ![c] = {}]
    /\ degrades' = [degrades EXCEPT ![c] = 0]
    /\ request' = [request EXCEPT ![c] = NoRequest]

\* The call ends with exception e.
Raise(c, e) ==
    /\ pc' = [pc EXCEPT ![c] = "raised"]
    /\ raised' = [raised EXCEPT ![c] = e]
    /\ stripped' = [stripped EXCEPT ![c] = {}]

\* text_chat returns val (line 372); under text_chat_stream the generator goes
\* on to mark the response partial and to yield it (lines 396-397).
Return(c, val) ==
    /\ ExitQuery(c)
    /\ llm_response' = [llm_response EXCEPT ![c] = val]
    /\ IF ~args[c].stream
       THEN /\ pc' = [pc EXCEPT ![c] = "returned"]
            /\ stripped' = [stripped EXCEPT ![c] = {}]
            /\ UNCHANGED <<raised, is_chunk, events>>
       ELSE IF val = "None"
       THEN /\ Raise(c, AttributeError)
            /\ UNCHANGED <<is_chunk, events>>
       ELSE /\ pc' = [pc EXCEPT ![c] = "yielded_partial"]
            /\ stripped' = [stripped EXCEPT ![c] = {}]
            /\ is_chunk' = [is_chunk EXCEPT ![c] = TRUE]
            /\ events' = [events EXCEPT ![c] =
                             <<[ref |-> c, is_chunk |-> TRUE]>>]
            /\ UNCHANGED raised
    /\ UNCHANGED <<keys, chosen_key, api_keys>>

\* Mutant of Retryable: every failure makes the loop rotate.
RetryableAny(e) == TRUE

\* text_chat, line 352: the failures that make the loop rotate.
Retryable(e) == e.t429 \/ e.tkey

\* text_chat, lines 351-370: the handler of an exception e raised by _query.
Except(c, e) ==
    /\ ExitQuery(c)
    /\ IF Retryable(e)
       THEN LET ks == Remove(keys[c], chosen_key[c])
            IN  /\ keys' = [keys EXCEPT ![c] = ks]
                /\ api_keys' = PoolAfterRemove(api_keys, chosen_key[c])
                /\ IF Len(ks) > 0
                   THEN /\ \E k \in random_choice(ks) :
                               chosen_key' = [chosen_key EXCEPT ![c] = k]
                        /\ pc' = [pc EXCEPT ![c] = "sleeping"]
                        /\ UNCHANGED <<raised, stripped>>
                   ELSE /\ Raise(c, RateLimitExhausted)
                        /\ UNCHANGED chosen_key
       ELSE /\ Raise(c, e)
            /\ UNCHANGED <<keys, chosen_key, api_keys>>
    /\ UNCHANGED <<llm_response, is_chunk, events>>

\* Mutant of FirstPhrase: the if/elif chain in the opposite order.
LastPhrase(r) ==
    IF "Image" \in r.phrases THEN "Image"
    ELSE IF "tools" \in r.phrases THEN "tools"
    ELSE "system_instruction"

\* The rejection phrase _query acts on (lines 266, 273, 280): the first that
\* str(result) contains, in the order of the if/elif chain.
FirstPhrase(r) ==
    IF "system_instruction" \in r.phrases THEN "system_instruction"
    ELSE IF "tools" \in r.phrases THEN "tools"
    ELSE "Image"

\* Mutant of Strip: the round clears nothing and posts the same request.
StripNothing(f, sys, tl, mods) ==
    [system_instruction |-> sys, tool |-> tl, modalites |-> mods]

\* Mutant of Strip: any rejection clears every feature at once.
StripAll(f, sys, tl, mods) ==
    [system_instruction |-> FALSE, tool |-> FALSE, modalites |-> {"Text"}]

\* _query, lines 270, 277, 284: the request features after feature f is
\* cleared.
Strip(f, sys, tl, mods) ==
    [system_instruction |-> IF f = "system_instruction" THEN FALSE ELSE sys,
     tool |-> IF f = "tools" THEN FALSE ELSE tl,
     modalites |-> IF f = "Image" THEN {"Text"} ELSE mods]

\* _query, lines 263-285 and back to 255: one degrade round on result r.  The
\* feature of the first phrase matched is cleared and the request is posted
\* again, with the credential the shared client holds now.
Degrade(c, r) ==
    /\ degrades[c] < MaxDegrades
    /\ LET f == FirstPhrase(r)
           l == Strip(f, system_instruction[c], tool[c], modalites[c])
       IN  /\ system_instruction' =
                 [system_instruction EXCEPT ![c] = l.system_instruction]
           /\ tool' = [tool EXCEPT ![c] = l.tool]
           /\ modalites' = [modalites EXCEPT ![c] = l.modalites]
           /\ request' = [request EXCEPT ![c] =
                             generate_content(client_api_key,
                                              request[c].contents,
                                              l.system_instruction, l.tool,
                                              l.modalites)]
           /\ stripped' = [stripped EXCEPT ![c] = @ \cup {f}]
    /\ degrades' = [degrades EXCEPT ![c] = @ + 1]
    /\ UNCHANGED <<pc, keys, chosen_key, api_keys, llm_response, raised,
                   is_chunk, events>>

\* The exception _query ends with on response r, if any: that of
\* generate_content (lines 68-79), the abnormal result (line 288) or the
\* failed decoding (line 290).
QueryFailure(r) ==
    IF r.kind = "exception" THEN TransportError(r)
    ELSE IF r.kind = "nonjson" THEN NonJsonError
    ELSE IF r.phrases # {} THEN NoException
    ELSE IF ~r.cand THEN AbnormalResult(r)
    ELSE IF ~r.decodable THEN DecodeError
    ELSE NoException

\* What follows the post for response r: generate_content (lines 68-79), the
\* rest of the while loop of _query (lines 263-288), the decoding (lines
\* 290-309) and text_chat's break or handler.
HandleResult(c, r) ==
    IF QueryFailure(r) # NoException THEN Except(c, QueryFailure(r))
    ELSE IF r.phrases # {} THEN Degrade(c, r)
    ELSE Return(c, "LLMResponse")

----------------------------------------------------------------------------
\* The actions.

\* text_chat (or text_chat_stream) is called: lines 322-349 and _query up to
\* its first post.
TextChat(c) ==
    /\ pc[c] \in Idle
    /\ \E a \in workload :
        /\ args' = [args EXCEPT ![c] = a]
        /\ keys' = [keys EXCEPT ![c] = api_keys]
        /\ i' = [i EXCEPT ![c] = 0]
        /\ llm_response' = [llm_response EXCEPT ![c] = "None"]
        /\ stripped' = [stripped EXCEPT ![c] = {}]
        /\ is_chunk' = [is_chunk EXCEPT ![c] = FALSE]
        /\ events' = [events EXCEPT ![c] = <<>>]
        /\ key_set' = NoKey
        /\ IF api_keys = <<>>
           THEN /\ pc' = [pc EXCEPT ![c] = "raised"]
                /\ raised' = [raised EXCEPT ![c] = IndexError]
                /\ chosen_key' = [chosen_key EXCEPT ![c] = NoKey]
                /\ ExitQuery(c)
                /\ resp' = [resp EXCEPT ![c] = NoResult]
                /\ UNCHANGED client_api_key
           ELSE /\ \E k \in random_choice(api_keys) :
                    /\ chosen_key' = [chosen_key EXCEPT ![c] = k]
                    /\ client_api_key' = SetClientKey(client_api_key, k)
                /\ raised' = [raised EXCEPT ![c] = NoException]
                /\ query(c, a)
    /\ UNCHANGED <<api_keys, config, translation, dashboard>>

\* The post completes: the vendor's response arrives and the call runs on to
\* its next suspension point or to its end.
Receive(c) ==
    /\ pc[c] = "awaiting"
    /\ \E r \in VendorResponses(request[c]) :
        /\ resp' = [resp EXCEPT ![c] = r]
        /\ HandleResult(c, r)
    /\ UNCHANGED <<client_api_key, config, args, i, key_set, translation,
                   dashboard>>

\* asyncio.sleep(1) is over (line 359): continue, the next round of the for
\* loop (lines 346-349) or, the range being exhausted, line 372.
Resume(c) ==
    /\ pc[c] = "sleeping"
    /\ IF LoopContinues(i[c])
       THEN /\ i' = [i EXCEPT ![c] = @ + 1]
            /\ client_api_key' = SetClientKey(client_api_key, chosen_key[c])
            /\ query(c, args[c])
            /\ UNCHANGED <<llm_response, raised, is_chunk, events, api_keys,
                           keys, chosen_key, stripped>>
       ELSE /\ Return(c, "None")
            /\ UNCHANGED <<i, client_api_key, resp>>
    /\ UNCHANGED <<config, args, key_set, translation, dashboard>>

\* Mutant of StreamNext: the generator makes the chat request again for its
\* final event.
StreamNextRequery(c) ==
    /\ pc[c] = "yielded_partial"
    /\ UNCHANGED <<api_keys, client_api_key, config, args, keys, chosen_key,
                   i, llm_response, raised, stripped, is_chunk, events,
                   key_set, translation, dashboard>>
    /\ query(c, args[c])

\* The consumer of text_chat_stream asks for the next event (lines 398-399).
StreamNext(c) ==
    /\ pc[c] \in {"yielded_partial", "yielded_final"}
    /\ IF pc[c] = "yielded_partial"
       THEN /\ is_chunk' = [is_chunk EXCEPT ![c] = FALSE]
            /\ events' = [events EXCEPT ![c] =
                             Append(@, [ref |-> c, is_chunk |-> FALSE])]
            /\ pc' = [pc EXCEPT ![c] = "yielded_final"]
       ELSE /\ pc' = [pc EXCEPT ![c] = "returned"]
            /\ UNCHANGED <<is_chunk, events>>
    /\ UNCHANGED <<api_keys, client_api_key, config, args, keys, chosen_key,
                   i, llm_response, raised, system_instruction, tool,
                   modalites, resp, degrades, request, stripped, key_set,
                   translation, dashboard>>

\* set_key (lines 407-408), called while no chat call is under way.
SetKey(k) ==
    /\ \A c \in Calls : ~InFlight(c)
    /\ client_api_key' = k
    /\ key_set' = k
    /\ UNCHANGED <<api_keys, config, pc, args, keys, chosen_key, i,
                   llm_response, raised, system_instruction, tool, modalites,
                   resp, degrades, request, stripped, is_chunk, events,
                   translation, dashboard>>

----------------------------------------------------------------------------
\* The variables of the provider and its calls.
provider ==
    <<api_keys, client_api_key, config, pc, args, keys, chosen_key, i,
      llm_response, raised, system_instruction, tool, modalites, resp,
      degrades, request, stripped, is_chunk, events, key_set>>

----------------------------------------------------------------------------
\* The translation of messages in _query: the history into the vendor's
\* conversation (lines 172-244) and the vendor's parts into the response
\* (lines 290-309).

\* Python values met in a message: a str, None, a list, and the key missing
\* from the dictionary.
Str(s) == [type |-> "str", str |-> s, list |-> <<>>]

None == [type |-> "NoneType", str |-> "", list |-> <<>>]

List(l) == [type |-> "list", str |-> "", list |-> l]

Missing == [type |-> "missing", str |-> "", list |-> <<>>]

\* not v
Falsy(v) ==
    \/ v.type = "NoneType"
    \/ v.type = "str" /\ v.str = ""
    \/ v.type = "list" /\ v.list = <<>>

\* s.startswith(prefix), strings being sequences of pieces.
StartsWith(s, prefix) ==
    /\ Len(s) >= Len(prefix)
    /\ SubSeq(s, 1, Len(prefix)) = prefix

\* s.replace(old, ""), strings being sequences of pieces.
replace(s, old) == SelectSeq(s, LAMBDA piece : piece # old)

\* The concatenation of a list of lists.
RECURSIVE Concat(_)
Concat(ss) ==
    IF Len(ss) = 0 THEN <<>> ELSE Head(ss) \o Concat(Tail(ss))

\* json.loads of the argument texts the histories carry.
json_loads(s) ==
    CASE s = "{}" -> {}
      [] s = "{\"city\": \"Paris\"}" -> {<<"city", "Paris">>}

\* A message of payloads["messages"].
Message(role, content, calls, id) ==
    [role |-> role, content |-> content, tool_calls |-> calls,
     tool_call_id |-> id]

\* The key "tool_calls" of a message: missing, or a list of calls.
NoCalls == [present |-> FALSE, list |-> <<>>]

ToolCalls(l) == [present |-> TRUE, list |-> l]

ToolCall(name, arguments) ==
    [function |-> [name |-> name, arguments |-> arguments]]

\* The items of a user message whose content is a list.
TextItem(v) == [type |-> "text", text |-> v, url |-> <<>>]

ImageItem(u) == [type |-> "image_url", text |-> Missing, url |-> u]

DataUrlPrefix == "data:image/jpeg;base64,"

\* A part of the vendor's protocol, in a request or in a response: a
\* dictionary with one key.
BlankPart ==
    [key |-> "", text |-> "", name |-> "", args |-> {}, mime |-> <<>>,
     data |-> <<>>, content |-> Missing]

\* {"text": t}
TextPart(t) == [BlankPart EXCEPT !.key = "text", !.text = t]

\* {"inline_data": {"mime_type": m, "data": d}} (lines 198-204)
InlineDataPart(m, d) ==
    [BlankPart EXCEPT !.key = "inline_data", !.mime = m, !.data = d]

\* {"functionCall": {"name": n, "args": a}}
FunctionCallPart(n, a) ==
    [BlankPart EXCEPT !.key = "functionCall", !.name = n, !.args = a]

\* {"functionResponse": {"name": id, "response": {"name": id, "content": v}}}
FunctionResponsePart(id, v) ==
    [BlankPart EXCEPT !.key = "functionResponse", !.name = id, !.content = v]

\* {"inlineData": {"mimeType": m, "data": d}}, in a response
InlineData(m, d) ==
    [BlankPart EXCEPT !.key = "inlineData", !.mime = m, !.data = d]

\* A part of another kind, in a response.
ExecutableCode == [BlankPart EXCEPT !.key = "executableCode"]

\* Mutant of Entry: the unified role "assistant" is sent as it is.
EntryUnifiedRole(role, ps) ==
    [role |-> IF role = "model" THEN "assistant" ELSE role, parts |-> ps]

\* {"role": role, "parts": ps}
Entry(role, ps) == [role |-> role, parts |-> ps]

\* Mutant of TextOf: empty content is sent as a blank.
TextOrBlank(v) == IF Falsy(v) THEN " " ELSE v.str

\* Lines 182-183, 193-194 and 211-212: the text sent for content v, empty
\* content being made the empty string.
TextOf(v) == IF Falsy(v) THEN "" ELSE v.str

\* Lines 192-205: the parts for one item of a list content.
EncodeItem(it) ==
    IF it.type = "text" THEN <<TextPart(TextOf(it.text))>>
    ELSE IF it.type = "image_url"
    THEN <<InlineDataPart(<<"image/", "jpeg">>, replace(it.url, DataUrlPrefix))>>
    ELSE <<>>

\* Lines 179-243: the entries appended for message m, none or one.
EncodeMessage(m) ==
    IF m.role = "user"
    THEN IF m.content.type = "str"
         THEN <<Entry("user", <<TextPart(TextOf(m.content))>>)>>
         ELSE IF m.content.type = "list"
         THEN <<Entry("user",
                      Concat([j \in 1..Len(m.content.list) |->
                                 EncodeItem(m.content.list[j])]))>>
         ELSE <<>>
    ELSE IF m.role = "assistant"
    THEN IF m.content.type # "missing"
         THEN <<Entry("model", <<TextPart(TextOf(m.content))>>)>>
         ELSE IF m.tool_calls.present
         THEN <<Entry("model",
                      [j \in 1..Len(m.tool_calls.list) |->
                          FunctionCallPart(
                              m.tool_calls.list[j].function.name,
                              json_loads(m.tool_calls.list[j].function.arguments))])>>
         ELSE <<>>
    ELSE IF m.role = "tool"
    THEN <<Entry("user", <<FunctionResponsePart(m.tool_call_id, m.content)>>)>>
    ELSE <<>>

\* Lines 178-244: google_genai_conversation for the messages.
EncodeMessages(msgs) ==
    Concat([j \in 1..Len(msgs) |-> EncodeMessage(msgs[j])])

\* Mutant of SystemInstruction: the loop has no break and the last system
\* message wins.
LastSystemInstruction(msgs) ==
    IF \E j \in 1..Len(msgs) : msgs[j].role = "system"
    THEN msgs[CHOOSE j \in 1..Len(msgs) :
                 /\ msgs[j].role = "system"
                 /\ \A m \in (j + 1)..Len(msgs) : msgs[m].role # "system"].content
    ELSE Str("")

\* generate_content, lines 49-50: if system_instruction, the payload gets
\* the key "system_instruction".
CarriesSystemInstruction(si) == ~Falsy(si)

\* Lines 172-176: the content of the first system message, or "".
SystemInstruction(msgs) ==
    IF \E j \in 1..Len(msgs) : msgs[j].role = "system"
    THEN msgs[CHOOSE j \in 1..Len(msgs) :
                 /\ msgs[j].role = "system"
                 /\ \A m \in 1..(j - 1) : msgs[m].role # "system"].content
    ELSE Str("")

\* Lines 183, 194 and 212: the message as the encoding leaves it in the
\* caller's payloads, its empty contents replaced by "".
NormalizedItem(it) ==
    IF it.type = "text" /\ Falsy(it.text)
    THEN [it EXCEPT !.text = Str("")]
    ELSE it

Normalized(m) ==
    IF m.role = "user" /\ m.content.type = "str" /\ Falsy(m.content)
    THEN [m EXCEPT !.content = Str("")]
    ELSE IF m.role = "user" /\ m.content.type = "list"
    THEN [m EXCEPT !.content =
             List([j \in 1..Len(m.content.list) |->
                      NormalizedItem(m.content.list[j])])]
    ELSE IF m.role = "assistant" /\ m.content.type # "missing" /\ Falsy(m.content)
    THEN [m EXCEPT !.content = Str("")]
    ELSE m

\* The components of a result chain.
Plain(t) == [type |-> "Plain", text |-> t, data |-> <<>>]

Image(d) == [type |-> "Image", text |-> "", data |-> d]

\* Lines 294-306: the branch of the if/elif chain part p takes.
Branch(p) ==
    IF p.key = "text" THEN "text"
    ELSE IF p.key = "functionCall" THEN "functionCall"
    ELSE IF p.key = "inlineData" THEN "inlineData"
    ELSE "none"

\* Lines 295-296 and 303-306: what part p appends to the chain.
DecodePart(p) ==
    IF Branch(p) = "text" THEN <<Plain(p.text)>>
    ELSE IF Branch(p) = "inlineData" /\ StartsWith(p.mime, <<"image/">>)
    THEN <<Image(p.data)>>
    ELSE <<>>

IsFunctionCall(p) == Branch(p) = "functionCall"

\* Mutant of DecodedRole: the role is left as LLMResponse("assistant") made it.
RoleUntouched(ps) == "assistant"

\* Lines 291 and 298: the role, "assistant" unless a function call is met.
DecodedRole(ps) ==
    IF \E j \in 1..Len(ps) : IsFunctionCall(ps[j]) THEN "tool" ELSE "assistant"

\* Mutant of ToolCallId: the record gets no identifier.
NoToolCallId(p) == ""

\* Lines 301-303: the identifier of a tool call is the function's name.
ToolCallId(p) == p.name

\* Lines 290-309: the llm_response decoded from the parts.
Decode(ps) ==
    LET calls == SelectSeq(ps, IsFunctionCall)
    IN  [role |-> DecodedRole(ps),
         result_chain |-> Concat([j \in 1..Len(ps) |-> DecodePart(ps[j])]),
         tools_call_args |-> [j \in 1..Len(calls) |-> calls[j].args],
         tools_call_name |-> [j \in 1..Len(calls) |-> calls[j].name],
         tools_call_ids |-> [j \in 1..Len(calls) |-> ToolCallId(calls[j])]]

NoConversation == [system_instruction |-> Str(""), contents |-> <<>>]

NoDecoded ==
    [role |-> "", result_chain |-> <<>>, tools_call_args |-> <<>>,
     tools_call_name |-> <<>>, tools_call_ids |-> <<>>]

\* The histories and the responses the translation is run on.

SystemTurns ==
    {Message("system", Str(t), NoCalls, "") : t \in {"Be brief.", "Be kind."}}

UserContents ==
    {Str(""), Str("2+2?"), None,
     List(<<TextItem(Str("What is this?")),
            ImageItem(<<DataUrlPrefix, "QUJD">>)>>),
     List(<<TextItem(None), ImageItem(<<"QUJD">>)>>)}

UserTurns == {Message("user", v, NoCalls, "") : v \in UserContents}

PendingCalls ==
    {NoCalls,
     ToolCalls(<<ToolCall("get_weather", "{\"city\": \"Paris\"}")>>),
     ToolCalls(<<ToolCall("get_weather", "{\"city\": \"Paris\"}"),
                 ToolCall("get_time", "{}")>>)}

AssistantTurns ==
    {Message("assistant", v, calls, "") :
        v \in {Missing, None, Str(""), Str("4")}, calls \in PendingCalls}

ToolTurns == {Message("tool", Str("sunny"), NoCalls, "get_weather")}

Turns == SystemTurns \cup UserTurns \cup AssistantTurns \cup ToolTurns

Histories == UNION {[1..n -> Turns] : n \in 0..MaxTurns}

\* The history of a single question.
ExampleHistory == <<Message("user", Str("2+2?"), NoCalls, "")>>

VendorParts ==
    {TextPart("4"), TextPart(""),
     FunctionCallPart("get_weather", {<<"city", "Paris">>}),
     FunctionCallPart("get_time", {}),
     InlineData(<<"image/", "png">>, <<"QUJD">>),
     InlineData(<<"audio/", "mp3">>, <<"QUJD">>),
     ExecutableCode}

VendorAnswers == UNION {[1..n -> VendorParts] : n \in 0..MaxParts}

\* A vendor that answers with the text parts of the request, in their order.
Echo(contents) ==
    SelectSeq(Concat([j \in 1..Len(contents) |-> contents[j].parts]),
              LAMBDA p : p.key = "text")

\* _query, lines 172-244: the messages are encoded.
Encode ==
    /\ stage = "start"
    /\ conversation' = [system_instruction |-> SystemInstruction(messages),
                        contents |-> EncodeMessages(messages)]
    /\ messages' = [j \in 1..Len(messages) |-> Normalized(messages[j])]
    /\ stage' = "encoded"
    /\ UNCHANGED <<parts, decoded, provider, dashboard>>

\* The vendor answers: to the example history with any parts, to another
\* history with its echo.
Respond ==
    /\ stage = "encoded"
    /\ parts' \in {Echo(conversation.contents)} \cup
                  (IF messages = ExampleHistory THEN VendorAnswers ELSE {})
    /\ stage' = "responded"
    /\ UNCHANGED <<messages, conversation, decoded, provider, dashboard>>

\* _query, lines 290-309: the parts are decoded.
DecodeParts ==
    /\ stage = "responded"
    /\ decoded' = Decode(parts)
    /\ stage' = "decoded"
    /\ UNCHANGED <<messages, conversation, parts, provider, dashboard>>

----------------------------------------------------------------------------
\* The dashboard: AstrBotDashboard.auth_middleware (server.py, lines 49-74),
\* run before every request (line 32).  A path is a sequence of pieces.

Paths ==
    {<<"/">>, <<"/index.html">>, <<"/ap">>, <<"/api">>, <<"/api", "x">>,
     <<"/api", "/auth/login">>, <<"/api", "/auth/login", "/x">>,
     <<"/api", "/chat/get_file">>, <<"/api", "/stat/get">>}

\* What a token is to jwt.decode: not a JWT at all (kind "empty" for "",
\* "garbage" otherwise) or a JWT that is or is not signed with WEBUI_SK, has
\* or has not expired and carries or lacks the claim "username".
Jwt(kind, signed, expired, username) ==
    [kind |-> kind, signed |-> signed, expired |-> expired,
     username |-> username]

EmptyToken == Jwt("empty", FALSE, FALSE, FALSE)

Tokens ==
    {EmptyToken, Jwt("garbage", FALSE, FALSE, FALSE)}
    \cup {Jwt("jwt", s, e, u) : s \in BOOLEAN, e \in BOOLEAN, u \in BOOLEAN}

\* The Authorization header: absent, or a scheme prefix and the rest.
Authorization(present, scheme, credentials) ==
    [present |-> present, scheme |-> scheme, credentials |-> credentials]

NoAuthorization == Authorization(FALSE, "", EmptyToken)

Headers ==
    {NoAuthorization}
    \cup {Authorization(TRUE, s, t) : s \in {"", "Bearer ", "Basic "}, t \in Tokens}

HttpRequests == [path : Paths, authorization : Headers]

NoHttpRequest == [path |-> <<"/">>, authorization |-> NoAuthorization]

\* What the middleware ends with: None (the request goes on to its handler),
\* a response with status 401 (lines 59-61, 68-70, 72-74: "未授权",
\* "Token 过期", "Token 无效"), or the KeyError of payload["username"]
\* (line 66), which no handler of the try catches.
Pending == [kind |-> "pending", status_code |-> 0, message |-> ""]

ReturnedNone == [kind |-> "None", status_code |-> 0, message |-> ""]

Unauthorized(message) ==
    [kind |-> "response", status_code |-> 401, message |-> message]

KeyError == [kind |-> "exception", status_code |-> 500, message |-> "KeyError"]

\* Mutant of jwt_decode: the expiry is not verified.
jwt_decode_no_expiry(scheme, t) ==
    IF scheme # "" \/ t.kind # "jwt" \/ ~t.signed THEN "InvalidTokenError"
    ELSE "payload"

\* jwt.decode(token, WEBUI_SK, algorithms=["HS256"]) (line 65) of the text
\* scheme + t: the signature is verified before the expiry.
jwt_decode(scheme, t) ==
    IF scheme # "" \/ t.kind # "jwt" \/ ~t.signed THEN "InvalidTokenError"
    ELSE IF t.expired THEN "ExpiredSignatureError"
    ELSE "payload"

\* Lines 62-63: what is left before the JWT once "Bearer " is cut off.
Unprefixed(scheme) == IF scheme = "Bearer " THEN "" ELSE scheme

\* Lines 50-55: the paths the middleware does not look into.
Exempt(path) ==
    \/ ~StartsWith(path, <<"/api">>)
    \/ path = <<"/api", "/auth/login">>
    \/ path = <<"/api", "/chat/get_file">>

\* Lines 50-74: what auth_middleware ends with for request rq.
auth_middleware(rq) ==
    LET token == rq.authorization
        outcome == jwt_decode(Unprefixed(token.scheme), token.credentials)
    IN  IF Exempt(rq.path) THEN ReturnedNone
        ELSE IF \/ ~token.present
                \/ token.scheme = "" /\ token.credentials.kind = "empty"
        THEN Unauthorized("unauthorized")
        ELSE IF outcome = "ExpiredSignatureError"
        THEN Unauthorized("token expired")
        ELSE IF outcome = "InvalidTokenError"
        THEN Unauthorized("token invalid")
        ELSE IF ~token.credentials.username THEN KeyError
        ELSE ReturnedNone

\* A request arrives and the middleware runs on it; line 66 sets g.username
\* from the payload of a token that decodes.
AuthMiddleware ==
    /\ http_response = Pending
    /\ http_response' = auth_middleware(http_request)
    /\ g_username' =
          IF ~Exempt(http_request.path) /\ http_response' = ReturnedNone
          THEN "astrbot"
          ELSE g_username
    /\ UNCHANGED <<http_request, provider, translation>>

----------------------------------------------------------------------------
\* The state after __init__ (lines 134-144) for a pool, a vendor, the image
\* modality setting and the callers' arguments.
InitProvider(pool, v, image, w, u) ==
    /\ api_keys = pool
    /\ client_api_key = IF Len(pool) > 0 THEN pool[1] ELSE NoKey
    /\ gm_resp_image_modal = image
    /\ vendor = v
    /\ workload = w
    /\ pc = [c \in Calls |-> "idle"]
    /\ args = [c \in Calls |-> NoArgs]
    /\ keys = [c \in Calls |-> <<>>]
    /\ chosen_key = [c \in Calls |-> NoKey]
    /\ i = [c \in Calls |-> 0]
    /\ llm_response = [c \in Calls |-> "None"]
    /\ raised = [c \in Calls |-> NoException]
    /\ system_instruction = [c \in Calls |-> FALSE]
    /\ tool = [c \in Calls |-> FALSE]
    /\ modalites = [c \in Calls |-> {}]
    /\ resp = [c \in Calls |-> NoResult]
    /\ degrades = [c \in Calls |-> 0]
    /\ request = [c \in Calls |-> NoRequest]
    /\ stripped = [c \in Calls |-> {}]
    /\ is_chunk = [c \in Calls |-> FALSE]
    /\ events = [c \in Calls |-> <<>>]
    /\ key_set = NoKey
    /\ unsupported = u

\* The translation before it has run on history h.
InitTranslation(h) ==
    /\ messages = h
    /\ conversation = NoConversation
    /\ parts = <<>>
    /\ decoded = NoDecoded
    /\ stage = "start"

\* The dashboard with request rq arrived.
InitDashboard(rq) ==
    /\ http_request = rq
    /\ http_response = Pending
    /\ g_username = ""

\* The provider by itself.
InitWith(pool, v, image, w) ==
    /\ InitProvider(pool, v, image, w, {})
    /\ InitTranslation(<<>>)
    /\ InitDashboard(NoHttpRequest)

\* One caller at a time: the operations of the provider, called one after
\* the other.
Next ==
    \/ TextChat(1)
    \/ Receive(1)
    \/ Resume(1)
    \/ StreamNext(1)
    \/ \E k \in Range(api_keys) : SetKey(k)

\* Any vendor, pools of up to MaxPool credentials, every argument.
Init ==
    \E n \in 0..MaxPool, image \in BOOLEAN :
        InitWith(Pool(n), [k \in 1..n |-> "any"], image, Args)

Spec == Init /\ [][Next]_vars

\* A pool larger than the retry budget.  The vendor rate-limits every
\* credential, or serves the first alone and answers the others 429 or
\* "API key not valid".
LargePool == retry + ExtraKeys

LargeVendors ==
    {[k \in 1..LargePool |-> "limited"],
     [k \in 1..LargePool |->
        IF k = 1 THEN "valid" ELSE IF k % 2 = 0 THEN "revoked" ELSE "limited"]}

PlainArgs ==
    {a \in Args : ~a.system_prompt /\ ~a.func_tool}

InitLargePool ==
    \E v \in LargeVendors : InitWith(Pool(LargePool), v, FALSE, PlainArgs)

SpecLargePool == InitLargePool /\ [][Next]_vars

\* Two callers at once on a pool of two credentials, each served or
\* rate-limited by the vendor.
NextConcurrent ==
    \E c \in Calls :
        \/ TextChat(c)
        \/ Receive(c)
        \/ Resume(c)
        \/ StreamNext(c)

ConcurrentArgs ==
    {a \in Args : ~a.func_tool}

InitConcurrent ==
    \E v \in [1..MaxPool -> {"valid", "limited"}] :
        InitWith(Pool(MaxPool), v, FALSE, ConcurrentArgs)

SpecConcurrent == InitConcurrent /\ [][NextConcurrent]_vars

\* Callers one after the other on a pool whose credentials the vendor
\* rate-limits or serves with a model that does not support the features of
\* a fixed set; every call is made with the same arguments.
CallAlone(c) ==
    /\ \A d \in Calls : ~InFlight(d)
    /\ TextChat(c)

NextSequential ==
    \E c \in Calls :
        \/ CallAlone(c)
        \/ Receive(c)
        \/ Resume(c)
        \/ StreamNext(c)

InitFixedModel ==
    \E v \in [1..MaxPool -> {"model", "limited"}], image \in BOOLEAN,
       a \in Args, u \in SUBSET Features :
        /\ InitProvider(Pool(MaxPool), v, image, {a}, u)
        /\ InitTranslation(<<>>)
        /\ InitDashboard(NoHttpRequest)

SpecFixedModel == InitFixedModel /\ [][NextSequential]_vars

\* The translation of _query by itself, on every history of up to MaxTurns
\* turns.
NextTranslate ==
    \/ Encode
    \/ Respond
    \/ DecodeParts

InitTranslate ==
    \E h \in Histories :
        /\ InitProvider(Pool(0), <<>>, FALSE, {}, {})
        /\ InitTranslation(h)
        /\ InitDashboard(NoHttpRequest)

SpecTranslate == InitTranslate /\ [][NextTranslate]_vars

\* The dashboard's middleware by itself, on every request.  A second action
\* takes the next request, in a context of its own, once the first is
\* answered.
NextRequest ==
    /\ http_response # Pending
    /\ \E rq \in HttpRequests : http_request' = rq
    /\ http_response' = Pending
    /\ g_username' = ""
    /\ UNCHANGED <<provider, translation>>

NextDashboard ==
    \/ AuthMiddleware
    \/ NextRequest

InitDashboardAlone ==
    \E rq \in HttpRequests :
        /\ InitProvider(Pool(0), <<>>, FALSE, {}, {})
        /\ InitTranslation(<<>>)
        /\ InitDashboard(rq)

SpecDashboard == InitDashboardAlone /\ [][NextDashboard]_vars

----------------------------------------------------------------------------
\* The claims.

\* The call has ended: text_chat (or the stream over it) returned or raised.
Ended(c) == pc[c] \in {"returned", "raised"}

\* The step is call c taking up the response to its post.
Received(c) ==
    /\ pc[c] = "awaiting"
    /\ pc'[c] # "awaiting" \/ degrades'[c] # degrades[c]

\* The vendor rate-limits every credential of the pool.
AllLimited == \A k \in DOMAIN vendor : vendor[k] = "limited"

\* The vendor serves exactly one credential and answers the others 429 or
\* "API key not valid".
OneValid ==
    /\ Cardinality({k \in DOMAIN vendor : vendor[k] = "valid"}) = 1
    /\ \A k \in DOMAIN vendor : vendor[k] \in {"valid", "limited", "revoked"}

\* C1: a chat call that returns, returns a response object, never None.
\* Fails: with more credentials than the retry budget, all failing, the for
\* loop runs out and line 372 returns the initial None.
C1_ResponseOrError ==
    \A c \in Calls : pc[c] = "returned" => llm_response[c] = "LLMResponse"

\* C2: when every one of the n >= 1 credentials is rate-limited, the call
\* ends after exactly n attempts by raising the rate-limit-exhaustion error.
\* Fails for n > retry.
C2_ExhaustsAfterNAttempts ==
    \A c \in Calls :
        (AllLimited /\ Len(api_keys) >= 1 /\ Ended(c)) =>
            /\ pc[c] = "raised"
            /\ raised[c] = RateLimitExhausted
            /\ i[c] + 1 = Len(api_keys)

\* C3: when exactly one of the n >= 2 credentials is valid, the call
\* succeeds, after at most n attempts.  Fails for n > retry.
C3_SucceedsWithinN ==
    \A c \in Calls :
        (OneValid /\ Len(api_keys) >= 2 /\ Ended(c)) =>
            /\ pc[c] = "returned"
            /\ llm_response[c] = "LLMResponse"
            /\ i[c] + 1 <= Len(api_keys)

\* C4: no step changes the configured pool api_keys, and a call that starts
\* has the whole pool as its working copy, whatever earlier calls removed
\* from theirs.
C4_PoolNeverChanges ==
    [][/\ api_keys' = api_keys
       /\ \A c \in Calls :
            (pc[c] \in Idle /\ pc'[c] = "awaiting") => keys'[c] = api_keys]_vars

\* C4, witness: a call has ended with a credential removed from its working
\* copy, and the pool still holds all of its credentials.
C4_Witness ==
    \E c \in Calls :
        /\ Ended(c)
        /\ Len(api_keys) >= 2
        /\ Len(keys[c]) < Len(api_keys)
        /\ api_keys = Pool(Len(api_keys))

\* C5: one query makes at most 3 degrade-retries.  Fails: the while loop
\* goes round as long as the responses contain a rejection phrase.
C5_AtMostThreeDegrades ==
    \A c \in Calls : degrades[c] <= 3

\* C6: a response containing the system-instruction-rejection phrase is
\* followed by exactly one new request, which carries no system instruction
\* and the contents, tool schema and modalities of the request before it.
C6_SystemInstructionRetry ==
    [][\A c \in Calls :
         (/\ Received(c)
          /\ resp'[c].kind = "json"
          /\ "system_instruction" \in resp'[c].phrases) =>
            /\ pc'[c] = "awaiting"
            /\ degrades'[c] = degrades[c] + 1
            /\ ~request'[c].system_instruction
            /\ request'[c].contents = request[c].contents
            /\ request'[c].tools = request[c].tools
            /\ request'[c].modalities = request[c].modalities]_vars

\* C6, witness: a request that carried a system instruction and a tool
\* schema was answered with the phrase, and the retry is in flight without
\* the system instruction and with the tool schema.
C6_Witness ==
    \E c \in Calls :
        /\ pc[c] = "awaiting"
        /\ args[c].system_prompt /\ args[c].func_tool
        /\ degrades[c] = 1
        /\ "system_instruction" \in resp[c].phrases
        /\ ~request[c].system_instruction
        /\ request[c].tools

\* C7: no request of a call carries a feature stripped earlier in the same
\* call.  Fails: after a credential rotation _query starts over from the
\* call's arguments.
C7_NoUndegrading ==
    \A c \in Calls :
        pc[c] = "awaiting" => RequestFeatures(request[c]) \cap stripped[c] = {}

\* C8: every request in flight was sent with the credential its own call
\* chose for the attempt.  Fails: a degrade-retry reads the shared
\* client.api_key, which the other call may have set meanwhile.
C8_OwnCredential ==
    \A c \in Calls : pc[c] = "awaiting" => request[c].key = chosen_key[c]

\* C9: a stream that ends has delivered two events, the first partial and
\* the second final, and every event delivered still reads as it was
\* delivered.  Fails: both events are the one response object, whose
\* is_chunk the second yield resets.
C9_PartialThenFinal ==
    \A c \in Calls :
        /\ (args[c].stream /\ pc[c] = "returned") =>
              /\ Len(events[c]) = 2
              /\ events[c][1].is_chunk
              /\ ~events[c][2].is_chunk
        /\ \A j \in 1..Len(events[c]) :
              is_chunk[events[c][j].ref] = events[c][j].is_chunk

\* C10: a failure whose text has neither "429" nor "API key not valid" ends
\* the call at once with that failure: no new request, no further attempt,
\* and the working copy as it was.
C10_OtherFailurePropagates ==
    [][\A c \in Calls :
         (/\ Received(c)
          /\ QueryFailure(resp'[c]) # NoException
          /\ ~QueryFailure(resp'[c]).t429
          /\ ~QueryFailure(resp'[c]).tkey) =>
            /\ pc'[c] = "raised"
            /\ raised'[c] = QueryFailure(resp'[c])
            /\ request'[c] = NoRequest
            /\ keys'[c] = keys[c]
            /\ i'[c] = i[c]]_vars

\* C10, witness: a call over a pool of two or more credentials ended with
\* the abnormal-result failure of a body with neither text, its working copy
\* whole.
C10_Witness ==
    \E c \in Calls :
        /\ pc[c] = "raised"
        /\ raised[c] = AbnormalResult(Response("json", FALSE, FALSE, {}, FALSE, FALSE))
        /\ Len(api_keys) >= 2
        /\ keys[c] = api_keys

\* The step is call c taking up a response that its query accepts and
\* decodes, so that text_chat breaks out of its loop with the response.
Succeeded(c) ==
    /\ Received(c)
    /\ pc'[c] \in {"returned", "yielded_partial"}
    /\ llm_response'[c] = "LLMResponse"

\* C11: when a chat call run alone succeeds, the credential get_current_key
\* reports is the one chosen for the attempt that succeeded, which is the
\* one its request was sent with, and the pool get_keys reports is as it
\* was, with every credential the working copy has lost.
C11_ActiveKeyIsSuccessfulKey ==
    [][\A c \in Calls :
         Succeeded(c) =>
            /\ get_current_key' = chosen_key[c]
            /\ request[c].key = chosen_key[c]
            /\ get_keys' = get_keys
            /\ Len(get_keys') = Len(keys[c]) + i[c]
            /\ Range(keys[c]) \subseteq Range(get_keys')]_vars

\* C11, witness: a call over the largest pool has returned a response on a
\* later attempt, the first credential tried gone from its working copy;
\* the active credential is the one of that attempt and the pool is whole.
C11_Witness ==
    \E c \in Calls :
        /\ pc[c] = "returned"
        /\ llm_response[c] = "LLMResponse"
        /\ i[c] >= 1
        /\ get_current_key = chosen_key[c]
        /\ chosen_key[c] \in Range(keys[c])
        /\ Len(keys[c]) + i[c] = Len(get_keys)
        /\ get_keys = Pool(MaxPool)

\* The features the call's arguments and the provider's configuration ask
\* for.
Requested(a) ==
    {f \in Features :
        \/ f = "system_instruction" /\ a.system_prompt
        \/ f = "tools" /\ a.func_tool
        \/ f = "Image" /\ gm_resp_image_modal}

\* C16: against a model that does not support the features of a fixed set,
\* the query that succeeds has made one degrade round per unsupported
\* feature the call asks for, so 1 + |U| round trips; with every credential
\* valid it is the call's first attempt.  This holds of every call, the
\* first and the ones after it alike.
C16_OneRoundPerUnsupportedFeature ==
    [][\A c \in Calls :
         Succeeded(c) =>
            /\ degrades[c] = Cardinality(Requested(args[c]) \cap unsupported)
            /\ (\A k \in DOMAIN vendor : vendor[k] = "model") => i[c] = 0]_vars

\* C16, witness: a first call has returned its response, and a second call
\* with the same arguments, asking for two features the model does not
\* support, has its third request in flight, free of both.
C16_Witness ==
    /\ pc[1] = "returned"
    /\ llm_response[1] = "LLMResponse"
    /\ args[2] = args[1]
    /\ pc[2] = "awaiting"
    /\ \A k \in DOMAIN vendor : vendor[k] = "model"
    /\ Cardinality(Requested(args[2]) \cap unsupported) = 2
    /\ degrades[2] = 2
    /\ RequestFeatures(request[2]) \cap unsupported = {}

\* C17: a degrade-retry is made only for a body that lacks candidates and
\* has a rejection phrase; a well-formed body with candidates is accepted
\* and decoded with no further request, whatever its text; a body without
\* candidates and without a phrase ends the query with the abnormal-result
\* failure.  Fails: the phrases are looked for in the text of the whole
\* body before the candidates are, so an answer whose text quotes a phrase
\* is thrown away and the request is made again.
C17_CandidatesAreAccepted ==
    [][\A c \in Calls :
         (Received(c) /\ resp'[c].kind = "json") =>
            /\ (pc'[c] = "awaiting") =>
                  (~resp'[c].cand /\ resp'[c].phrases # {})
            /\ (resp'[c].cand /\ resp'[c].decodable) =>
                  (pc'[c] # "awaiting" /\ llm_response'[c] = "LLMResponse")
            /\ (~resp'[c].cand /\ resp'[c].phrases = {}) =>
                  QueryFailure(resp'[c]) = AbnormalResult(resp'[c])]_vars

\* C18: a chat call invokes the query at most retry = 10 times, whatever
\* the pool and the failures, and the attempt that succeeds ends the call
\* with its response, no further request made.
C18_AtMostRetryQueries ==
    [][\A c \in Calls :
         /\ (pc'[c] = "awaiting") => i'[c] + 1 <= retry
         /\ Succeeded(c) =>
               /\ request'[c] = NoRequest
               /\ i'[c] = i[c]
               /\ keys'[c] = keys[c]]_vars

\* C18, witness: a call over a pool larger than the budget has returned a
\* response on its tenth attempt.
C18_Witness ==
    \E c \in Calls :
        /\ pc[c] = "returned"
        /\ llm_response[c] = "LLMResponse"
        /\ i[c] + 1 = retry
        /\ Len(keys[c]) = LargePool - i[c]

\* The function-call parts and the text parts of the vendor's answer.
CallParts == SelectSeq(parts, LAMBDA p : p.key = "functionCall")

TextParts == SelectSeq(parts, LAMBDA p : p.key = "text")

\* C12: a decoded response has role "tool" if and only if it holds at least
\* one tool-call record, and role "assistant" otherwise.
C12_ToolRoleIffToolCall ==
    stage = "decoded" =>
        /\ decoded.role \in {"tool", "assistant"}
        /\ decoded.role = "tool" <=> Len(decoded.tools_call_name) >= 1
        /\ decoded.role = "tool" <=> Len(CallParts) >= 1

\* C12, witness: an answer of a function call and a sound clip has been
\* decoded into a response of role "tool" with one tool-call record.
C12_Witness ==
    /\ stage = "decoded"
    /\ parts = <<FunctionCallPart("get_time", {}),
                 InlineData(<<"audio/", "mp3">>, <<"QUJD">>)>>
    /\ decoded.role = "tool"
    /\ Len(decoded.tools_call_name) = 1

\* C13: decoding yields one tool-call record per function-call part, in the
\* parts' order, with the function's name as identifier and as name and with
\* its arguments, so that the three lists are equally long; and one text
\* segment per text part, in order.
C13_RecordPerFunctionCall ==
    stage = "decoded" =>
        /\ Len(decoded.tools_call_ids) = Len(CallParts)
        /\ Len(decoded.tools_call_name) = Len(CallParts)
        /\ Len(decoded.tools_call_args) = Len(CallParts)
        /\ \A j \in 1..Len(CallParts) :
              /\ decoded.tools_call_ids[j] = CallParts[j].name
              /\ decoded.tools_call_name[j] = CallParts[j].name
              /\ decoded.tools_call_args[j] = CallParts[j].args
        /\ SelectSeq(decoded.result_chain, LAMBDA comp : comp.type = "Plain")
              = [j \in 1..Len(TextParts) |-> Plain(TextParts[j].text)]

\* C13, witness: an answer of one text part and one function-call part has
\* been decoded: role "tool", one text segment, one record whose identifier
\* is the function's name.
C13_Witness ==
    /\ stage = "decoded"
    /\ parts = <<TextPart("4"),
                 FunctionCallPart("get_weather", {<<"city", "Paris">>})>>
    /\ decoded.role = "tool"
    /\ decoded.result_chain = <<Plain("4")>>
    /\ decoded.tools_call_ids = <<"get_weather">>
    /\ decoded.tools_call_args = <<{<<"city", "Paris">>}>>

\* A history of text turns only: user and assistant turns whose content is
\* a string.
TextOnly(h) ==
    \A j \in 1..Len(h) :
        /\ h[j].role \in {"user", "assistant"}
        /\ h[j].content.type = "str"
        /\ ~h[j].tool_calls.present

\* C14: for a history of text turns only, decoding the vendor's echo of the
\* encoded text parts gives the texts of the history, each verbatim and in
\* the history's order.
C14_TextRoundTrip ==
    (/\ stage = "decoded"
     /\ TextOnly(messages)
     /\ parts = Echo(conversation.contents)) =>
        /\ Len(decoded.result_chain) = Len(messages)
        /\ \A j \in 1..Len(messages) :
              decoded.result_chain[j] = Plain(messages[j].content.str)
        /\ decoded.role = "assistant"

\* C14, witness: the history of an empty user turn and an assistant turn has
\* gone through encoding, echo and decoding.
C14_Witness ==
    /\ stage = "decoded"
    /\ messages = <<Message("user", Str(""), NoCalls, ""),
                    Message("assistant", Str("4"), NoCalls, "")>>
    /\ parts = Echo(conversation.contents)
    /\ decoded.result_chain = <<Plain(""), Plain("4")>>

\* The step is the encoding of the history.
Encoding == stage = "start" /\ stage' = "encoded"

\* The entry the pending calls of assistant turn m are to be encoded as.
CallsEntry(m) ==
    Entry("model",
          [k \in 1..Len(m.tool_calls.list) |->
              FunctionCallPart(m.tool_calls.list[k].function.name,
                               json_loads(m.tool_calls.list[k].function.arguments))])

\* C19: every assistant turn with pending tool calls, with no content key or
\* with one that is empty or null, is encoded as one "model" entry holding
\* one function-call part per call, in order, with the call's name and its
\* decoded arguments.  Fails: a content key, whatever it holds, makes the
\* turn a text turn and its calls are not sent.
C19_ToolCallsEncoded ==
    [][Encoding =>
         \A j \in 1..Len(messages) :
            (/\ messages[j].role = "assistant"
             /\ messages[j].tool_calls.present
             /\ messages[j].content \in {Missing, None, Str("")}) =>
                \E e \in 1..Len(conversation'.contents) :
                    conversation'.contents[e] = CallsEntry(messages[j])]_vars

\* C20: every user or assistant text turn whose content is the empty string
\* or null is encoded as one entry with the one text part "", and the
\* entries are as many as the turns that are not system turns.  Fails: a
\* user turn whose content is null is neither a string nor a list and gets
\* no entry.
C20_EmptyTextKept ==
    [][(/\ Encoding
        /\ \A j \in 1..Len(messages) :
              /\ messages[j].content # Missing
              /\ ~messages[j].tool_calls.present) =>
         /\ Len(conversation'.contents) =
               Cardinality({j \in 1..Len(messages) : messages[j].role # "system"})
         /\ \A j \in 1..Len(messages) :
               (/\ messages[j].role \in {"user", "assistant"}
                /\ messages[j].content \in {None, Str("")}) =>
                  \E e \in 1..Len(conversation'.contents) :
                      /\ conversation'.contents[e].parts = <<TextPart("")>>
                      /\ conversation'.contents[e].role =
                            (IF messages[j].role = "user" THEN "user" ELSE "model")]_vars

\* The request carries a token that decodes as valid and unexpired: a JWT
\* signed with the dashboard's key and not expired, alone or after "Bearer ".
ValidToken(rq) ==
    /\ rq.authorization.present
    /\ rq.authorization.scheme \in {"", "Bearer "}
    /\ rq.authorization.credentials.kind = "jwt"
    /\ rq.authorization.credentials.signed
    /\ ~rq.authorization.credentials.expired

\* C15: a request under /api goes on to its handler only if its path is
\* /api/auth/login or /api/chat/get_file or it carries a valid, unexpired
\* token; under /api, off those two paths and without such a token it is
\* answered 401 and does not go on; a request outside /api always goes on.
C15_ApiNeedsToken ==
    http_response # Pending =>
        /\ (StartsWith(http_request.path, <<"/api">>)
              /\ http_response = ReturnedNone) =>
               \/ http_request.path = <<"/api", "/auth/login">>
               \/ http_request.path = <<"/api", "/chat/get_file">>
               \/ ValidToken(http_request)
        /\ (/\ StartsWith(http_request.path, <<"/api">>)
            /\ http_request.path # <<"/api", "/auth/login">>
            /\ http_request.path # <<"/api", "/chat/get_file">>
            /\ ~ValidToken(http_request)) =>
               /\ http_response.kind = "response"
               /\ http_response.status_code = 401
        /\ ~StartsWith(http_request.path, <<"/api">>) =>
               http_response = ReturnedNone

\* C15, witness: GET /api/stat/get with an expired token after "Bearer " has
\* been answered 401.
C15_Witness ==
    /\ http_request.path = <<"/api", "/stat/get">>
    /\ http_request.authorization =
          Authorization(TRUE, "Bearer ", Jwt("jwt", TRUE, TRUE, TRUE))
    /\ http_response.status_code = 401

\* The turns of history h that are not system turns, in their order.
NonSystem(h) == SelectSeq(h, LAMBDA m : m.role # "system")

\* C21: the system instruction is the content of the first system turn of
\* the history, whatever system turns follow it; no system turn becomes an
\* entry of the contents, which are those of the history without its
\* system turns; and for a history without a system turn the request
\* carries no system instruction.
C21_FirstSystemTurnOnly ==
    [][Encoding =>
         LET sys == {j \in 1..Len(messages) : messages[j].role = "system"}
         IN  /\ sys # {} =>
                   conversation'.system_instruction =
                      messages[CHOOSE j \in sys : \A m \in sys : j <= m].content
             /\ sys = {} =>
                   ~CarriesSystemInstruction(conversation'.system_instruction)
             /\ conversation'.contents = EncodeMessages(NonSystem(messages))
             /\ \A e \in 1..Len(conversation'.contents) :
                   conversation'.contents[e].role # "system"]_vars

\* C21, witness: a history of two system turns with different texts has
\* been encoded: the instruction is the text of the first and there is no
\* entry.
C21_Witness ==
    /\ stage = "encoded"
    /\ Len(messages) = 2
    /\ messages[1].role = "system" /\ messages[2].role = "system"
    /\ messages[1].content # messages[2].content
    /\ conversation.system_instruction = messages[1].content
    /\ CarriesSystemInstruction(conversation.system_instruction)
    /\ conversation.contents = <<>>

\* The vendor's role for the turns of a unified role.
VendorRole(role) == IF role = "assistant" THEN "model" ELSE "user"

\* C22: every entry of the encoded conversation has role "user" or "model",
\* and the entries come from turns of the history in the turns' order: an
\* entry from a user or tool turn has role "user", one from an assistant
\* turn has role "model".
C22_VendorRolesInOrder ==
    [][Encoding =>
         LET entries == conversation'.contents
         IN  /\ \A e \in 1..Len(entries) : entries[e].role \in {"user", "model"}
             /\ \E from \in [1..Len(entries) -> 1..Len(messages)] :
                   /\ \A e1, e2 \in 1..Len(entries) :
                         e1 < e2 => from[e1] < from[e2]
                   /\ \A e \in 1..Len(entries) :
                         /\ messages[from[e]].role \in {"user", "assistant", "tool"}
                         /\ entries[e].role = VendorRole(messages[from[e]].role)
                         /\ <<entries[e]>> = EncodeMessage(messages[from[e]])]_vars

\* C22, witness: a history of a tool-result turn and an assistant turn has
\* been encoded into a "user" entry followed by a "model" entry.
C22_Witness ==
    /\ stage = "encoded"
    /\ Len(messages) = 2
    /\ messages[1].role = "tool" /\ messages[2].role = "assistant"
    /\ Len(conversation.contents) = 2
    /\ conversation.contents[1].role = "user"
    /\ conversation.contents[1].parts[1].key = "functionResponse"
    /\ conversation.contents[2].role = "model"

\* The step is call c taking up a failure of its query whose text has "429"
\* or "API key not valid".
CredentialFailure(c) ==
    /\ Received(c)
    /\ QueryFailure(resp'[c]).t429 \/ QueryFailure(resp'[c]).tkey

\* C23: in a call run alone over distinct credentials, every attempt is made
\* with a credential of the working copy, which holds distinct credentials
\* and has lost one per earlier attempt; and a rate-limit or invalid-key
\* failure removes from it exactly the credential the failed attempt was
\* made with.  So no credential is attempted twice.
C23_NoCredentialTwice ==
    [][\A c \in Calls :
         /\ pc'[c] = "awaiting" =>
               /\ chosen_key'[c] \in Range(keys'[c])
               /\ request'[c].key = chosen_key'[c]
               /\ Cardinality(Range(keys'[c])) = Len(keys'[c])
               /\ Len(keys'[c]) = Len(api_keys') - i'[c]
         /\ CredentialFailure(c) =>
               /\ request[c].key = chosen_key[c]
               /\ Range(keys'[c]) = Range(keys[c]) \ {chosen_key[c]}
               /\ Len(keys'[c]) = Len(keys[c]) - 1
               /\ pc'[c] = "sleeping" => chosen_key'[c] \in Range(keys'[c])]_vars

\* C23, witness: the second attempt of a call over the largest pool is in
\* flight, with a credential of the working copy, which has lost the first.
C23_Witness ==
    \E c \in Calls :
        /\ pc[c] = "awaiting"
        /\ i[c] = 1
        /\ Len(api_keys) = MaxPool
        /\ Len(keys[c]) = MaxPool - 1
        /\ request[c].key = chosen_key[c]
        /\ chosen_key[c] \in Range(keys[c])

\* C24: with two calls at once, the credential a call removes from its
\* working copy after a rate-limit or invalid-key failure is the one the
\* failed request was sent with.  Fails: a degrade-retry is sent with the
\* credential the shared client holds, which the other call may have set,
\* and the handler removes the call's own chosen_key.
C24_RemovesTheFailedCredential ==
    [][\A c \in Calls :
         CredentialFailure(c) =>
            /\ request[c].key \in Range(keys[c])
            /\ Range(keys'[c]) = Range(keys[c]) \ {request[c].key}]_vars

\* The first of the phrases ph in the order system instruction, tool
\* schema, output modality.
Foremost(ph) ==
    LET order == <<"system_instruction", "tools", "Image">>
    IN  order[CHOOSE j \in 1..3 :
                 /\ order[j] \in ph
                 /\ \A m \in 1..(j - 1) : order[m] \notin ph]

\* C25: a degrade round clears one feature, the first in the fixed order
\* whose phrase the response has, and leaves the other two and the
\* conversation contents of the request as they were.
C25_OneFeaturePerRound ==
    [][\A c \in Calls :
         (Received(c) /\ pc'[c] = "awaiting") =>
            /\ resp'[c].phrases # {}
            /\ LET f == Foremost(resp'[c].phrases)
               IN  /\ RequestFeatures(request'[c]) =
                         RequestFeatures(request[c]) \ {f}
                   /\ f # "system_instruction" =>
                         request'[c].system_instruction =
                            request[c].system_instruction
                   /\ f # "tools" => request'[c].tools = request[c].tools
                   /\ f # "Image" =>
                         request'[c].modalities = request[c].modalities
            /\ request'[c].contents = request[c].contents]_vars

\* C25, witness: a request with all three features was answered with all
\* three phrases at once, and the retry in flight has lost the system
\* instruction alone.
C25_Witness ==
    \E c \in Calls :
        /\ pc[c] = "awaiting"
        /\ degrades[c] = 1
        /\ resp[c].phrases = Features
        /\ args[c].system_prompt
        /\ RequestFeatures(request[c]) = {"tools", "Image"}

\* C26: after set_key(k), get_current_key returns k, and the first request
\* of the next chat call is sent with k.  Fails: text_chat picks a
\* credential of the pool at random and makes it the active one (lines
\* 344-348), whatever set_key had set.
C26_SetKeyIsUsed ==
    [][/\ (key_set' # NoKey /\ key_set' # key_set) => get_current_key' = key_set'
       /\ \A c \in Calls :
            (key_set # NoKey /\ pc[c] \in Idle /\ pc'[c] = "awaiting") =>
                request'[c].key = key_set]_vars

\* C27: a stream makes all its requests before its first event: once an
\* event is delivered no request is in flight or made, the events are those
\* of the one response of the chat call; and a stream whose chat call fails
\* has delivered no event and ends with that failure.
C27_StreamCallsOnce ==
    \A c \in Calls :
        args[c].stream =>
            /\ events[c] # <<>> =>
                  /\ pc[c] \in {"yielded_partial", "yielded_final", "returned"}
                  /\ request[c] = NoRequest
                  /\ llm_response[c] = "LLMResponse"
                  /\ \A j \in 1..Len(events[c]) : events[c][j].ref = c
            /\ pc[c] \in {"awaiting", "sleeping"} => events[c] = <<>>
            /\ pc[c] = "raised" =>
                  /\ events[c] = <<>>
                  /\ raised[c] # NoException
                  /\ raised[c] # AttributeError

\* C27, witness: a stream has delivered its partial event after a chat call
\* of two attempts, and no request is in flight.
C27_Witness ==
    \E c \in Calls :
        /\ args[c].stream
        /\ pc[c] = "yielded_partial"
        /\ i[c] >= 1
        /\ Len(events[c]) = 1
        /\ request[c] = NoRequest

\* C28: with an empty pool a chat call sends no request and ends with an
\* error: no response, no event, and the active credential as it was (none).
C28_EmptyPoolFails ==
    api_keys = <<>> =>
        /\ get_current_key = NoKey
        /\ \A c \in Calls :
              /\ pc[c] \in {"idle", "raised"}
              /\ request[c] = NoRequest
              /\ resp[c] = NoResult
              /\ llm_response[c] = "None"
              /\ events[c] = <<>>
              /\ pc[c] = "raised" =>
                    (raised[c] # NoException /\ raised[c].type = "IndexError")

\* C28, witness: a call (through the stream) on the empty pool has ended
\* with the IndexError of random.choice.
C28_Witness ==
    /\ api_keys = <<>>
    /\ pc[1] = "raised"
    /\ args[1].stream
    /\ raised[1] = IndexError
    /\ request[1] = NoRequest

====
